---------------------------- MODULE Spec2Model ----------------------------
(* State-machine model of sim_sdk.py: the single-call entry point          *)
(* cursor_agent, the streaming generator stream_analysis, the two glob     *)
(* batch entry points process_files_glob / stream_process_files_glob, the  *)
(* CursorAgent class and the command-line entry point main.                *)
(*                                                                         *)
(* Time is the wall clock in microseconds since the epoch.  A generator    *)
(* is a frame (its local variables and the yield it is suspended at) plus  *)
(* the list of events it has yielded so far; one action is one resumption  *)
(* of the generator by its consumer, from one yield to the next.           *)
EXTENDS Integers, Sequences, FiniteSets, TLC

VARIABLES
    clock,        \* time.time(), in microseconds
    pid,          \* os.getpid()
    ticks,        \* number of consumer pauses taken so far
    prompt,       \* the prompt argument of the streaming sessions
    output_file,  \* the output_file argument of the streaming sessions
    consumer,     \* the sessions the consumer will run
    gen,          \* stream_analysis generator frames, one per session
    out,          \* events yielded so far by each session
    env,          \* os.environ: the value of CURSOR_API_KEY, or None
    ncalls,       \* number of direct cursor_agent calls made so far
    call,         \* arguments (and environment) of the latest direct cursor_agent call
    ret,          \* value returned by the latest direct cursor_agent call
    fs,           \* the files that exist
    pattern,      \* the pattern argument of the batch calls
    prompt_template, \* the prompt_template argument of the batch calls
    pfg,          \* frame of the process_files_glob call
    batch_calls,  \* the cursor_agent calls made by process_files_glob
    spg,          \* frame of the stream_process_files_glob generator
    bout,         \* events yielded so far by stream_process_files_glob
    agent,        \* the CursorAgent object: whether it exists, its api_key
    ctor,         \* arguments and outcome of the CursorAgent(...) call
    args,         \* main: the parsed command line (argparse Namespace)
    stdin,        \* main: what sys.stdin.read() returns
    mainpc,       \* main: where the command-line run is
    stdout,       \* main: lines printed to sys.stdout
    stderr,       \* main: lines printed to sys.stderr
    stdout_ok,    \* main: whether a flush of sys.stdout succeeds right now
    exit_status   \* main: exit status of the process, None while it runs

streamVars == <<ticks, prompt, output_file, consumer, gen, out>>

agentVars == <<ncalls, call, ret>>

batchVars == <<fs, pattern, prompt_template, pfg, batch_calls, spg, bout>>

objVars == <<agent, ctor>>

mainVars == <<args, stdin, mainpc, stdout, stderr, stdout_ok, exit_status>>

vars == <<clock, pid, env, streamVars, agentVars, batchVars, objVars, mainVars>>

-----------------------------------------------------------------------------
(* Bounds and input sets *)

\* Python's None
None == "<None>"

\* how many times a consumer may pause between two resumptions
MaxTicks == 1

\* lengths of a consumer pause, in microseconds
TickAmounts == {300, 800000}

\* wall-clock values at which the process may start
StartClocks == {0, 999800}

\* values of os.getpid()
Pids == {4242}

\* values of id(object()) % 10000 the allocator may hand out
ObjAddrs == {1184, 7312}

\* the run of a session and its replay
Sessions == {"first", "replay"}

Prompts == {"", "analyze"}

OutputFiles == {"analysis.txt", "report.md"}

\* how many direct calls of cursor_agent a behaviour makes
MaxCalls == 2

OutputFormats == {"text", "json", "stream-json"}

\* values of the positional prompt argument of the command line (None:
\* not given)
ArgPrompts == {None, "analyze"}

\* what standard input holds: None (it cannot be read), blank, a prompt
Stdins == {None, "  \n", " analyze\n"}

\* values of the target argument of CursorAgent.review
Targets == {"recent changes", ""}

\* values of the api_key argument / of the CURSOR_API_KEY variable
ApiKeys == {None, "", "sk-arg"}

EnvValues == {None, "", "sk-env"}

\* the command lines argparse accepts
ArgSets ==
    [prompt : ArgPrompts, print : BOOLEAN, force : BOOLEAN,
     output_format : OutputFormats, stream_partial_output : BOOLEAN,
     api_key : ApiKeys]

\* values of the instruction argument of CursorAgent.stream_batch_process
Instructions == {"add JSDoc comments"}

\* a path, with the parts glob matches on
File(path, dir, ext) == [path |-> path, dir |-> dir, ext |-> ext]

\* the files that may exist
Files ==
    {File("src/a.js", <<"src">>, "js"),
     File("src/lib/b.js", <<"src", "lib">>, "js"),
     File("src/c.py", <<"src">>, "py"),
     File("src/d.js", <<"src">>, "js")}

\* a glob pattern <root>/*.<ext>, or <root>/**/*.<ext> when recursive
Pattern(text, root, recursive, ext) ==
    [text |-> text, root |-> root, recursive |-> recursive, ext |-> ext]

Patterns ==
    {Pattern("src/**/*.js", <<"src">>, TRUE, "js"),
     Pattern("src/*.js", <<"src">>, FALSE, "js"),
     Pattern("no/such/*.xyz", <<"no", "such">>, FALSE, "xyz")}

\* a piece of a format string: literal text, or a replacement field {name}
Lit(text) == [kind |-> "lit", text |-> text]

Field(name) == [kind |-> "field", name |-> name]

\* "t"; "for {file} add JSDoc comments"; ""; "{path}: review"
Templates ==
    {<<Lit("t")>>,
     <<Lit("for "), Field("file"), Lit(" add JSDoc comments")>>,
     <<>>,
     <<Field("path"), Lit(": review")>>}

-----------------------------------------------------------------------------
(* Clock and identifier helpers *)

\* time.sleep(0.5) in _simulate_delay
SimulateDelayUs == 500000

\* time.sleep(0.01) after each assistant event
CharSleepUs == 10000

\* time.sleep(0.2) between a tool call's started and completed events
ToolSleepUs == 200000

Pad2(n) == IF n < 10 THEN "0" \o ToString(n) ELSE ToString(n)

\* time.strftime("%Y-%m-%dT%H:%M:%S", time.gmtime()): the clock truncated
\* to whole seconds, rendered as a UTC date-time (first day of the epoch)
get_current_timestamp(t) ==
    LET sec == t \div 1000000
    IN  "1970-01-01T" \o Pad2((sec \div 3600) % 24) \o ":"
           \o Pad2((sec \div 60) % 60) \o ":" \o Pad2(sec % 60)

\* f"evt_{int(time.time() * 1000)}_{os.getpid()}_{id(object()) % 10000}"
generate_event_id(t, p, addr) ==
    "evt_" \o ToString(t \div 1000) \o "_" \o ToString(p) \o "_" \o ToString(addr)

\* f"tool_{int(time.time() * 1000000) % 1000000}"
generate_tool_call_id(t) ==
    "tool_" \o ToString(t % 1000000)

-----------------------------------------------------------------------------
(* cursor_agent *)

\* Python truthiness of an Optional[str]: None and "" are falsy
Falsy(v) == v = None \/ v = ""

\* a str return value / a dict return value
Str(v) == [kind |-> "str", value |-> v]

Dict(v) == [kind |-> "dict", value |-> v]

\* "错误：", the prefix of every error text of the text format
ErrPrefix == "ERROR: "

\* "缺少必要的 prompt 参数"
MsgNoPrompt == "missing required prompt argument"

\* "非打印模式下不执行操作，请设置 print_mode=True"
MsgNoPrint == "nothing is done outside print mode, set print_mode=True"

\* "API密钥未设置，请设置环境变量 CURSOR_API_KEY"
MsgNoKey == "API key not set, set the environment variable CURSOR_API_KEY"

\* the two shapes of an error return
ErrorReturn(output_format, msg) ==
    IF output_format = "text"
    THEN Str(ErrPrefix \o msg)
    ELSE Dict([error |-> msg, exit_code |-> 1])

\* os.getenv('CURSOR_API_KEY') or api_key: the environment first
EffectiveApiKey_EnvFirst(api_key, e) == IF Falsy(e) THEN api_key ELSE e

\* api_key or os.getenv('CURSOR_API_KEY')
EffectiveApiKey(api_key, e) == IF Falsy(api_key) THEN e ELSE api_key

\* the call gets past its three precondition checks and reaches
\* _simulate_delay()
ReachesBackend(p, print_mode, api_key, e) ==
    /\ ~Falsy(p)
    /\ print_mode
    /\ ~Falsy(EffectiveApiKey(api_key, e))

\* cursor_agent without the print_mode check
cursor_agent_NoPrintCheck(p, print_mode, force, output_format, api_key, e) ==
    IF Falsy(p) THEN ErrorReturn(output_format, MsgNoPrompt)
    ELSE IF Falsy(EffectiveApiKey(api_key, e))
    THEN ErrorReturn(output_format, MsgNoKey)
    ELSE IF output_format = "stream-json" THEN Str("")
    ELSE Str("codebase description")

\* cursor_agent whose stream-json branch falls through to the text branch
cursor_agent_StreamAsText(p, print_mode, force, output_format, api_key, e) ==
    IF Falsy(p) THEN ErrorReturn(output_format, MsgNoPrompt)
    ELSE IF ~print_mode THEN ErrorReturn(output_format, MsgNoPrint)
    ELSE IF Falsy(EffectiveApiKey(api_key, e))
    THEN ErrorReturn(output_format, MsgNoKey)
    ELSE Str("codebase description")

\* cursor_agent checking the credential before the prompt and print mode
cursor_agent_KeyFirst(p, print_mode, force, output_format, api_key, e) ==
    IF Falsy(EffectiveApiKey(api_key, e))
    THEN ErrorReturn(output_format, MsgNoKey)
    ELSE IF Falsy(p) THEN ErrorReturn(output_format, MsgNoPrompt)
    ELSE IF ~print_mode THEN ErrorReturn(output_format, MsgNoPrint)
    ELSE IF output_format = "stream-json" THEN Str("")
    ELSE Str("codebase description")

\* the value cursor_agent returns
cursor_agent(p, print_mode, force, output_format, api_key, e) ==
    IF Falsy(p) THEN ErrorReturn(output_format, MsgNoPrompt)
    ELSE IF ~print_mode THEN ErrorReturn(output_format, MsgNoPrint)
    ELSE IF Falsy(EffectiveApiKey(api_key, e))
    THEN ErrorReturn(output_format, MsgNoKey)
    ELSE IF output_format = "json"
    THEN Dict([result |-> "review done, no serious problem found",
               recommendations |-> <<"add JSDoc comments",
                                     "refactor old code with ES6+ syntax",
                                     "add unit test coverage">>,
               file_changes |-> <<[path |-> "src/utils.js", action |-> "updated",
                                   lines_added |-> 12]>>,
               success |-> TRUE,
               prompt |-> p,
               print_mode |-> print_mode,
               force |-> force,
               output_format |-> output_format,
               api_key_set |-> ~Falsy(EffectiveApiKey(api_key, e)),
               exit_code |-> 0])
    ELSE IF output_format = "stream-json" THEN Str("")
    ELSE Str("codebase description")

\* the precondition checks a call of cursor_agent evaluates, in the order
\* it evaluates them: each if-statement returns when its check fails, so
\* the later ones are not reached
ChecksRun(p, print_mode) ==
    IF Falsy(p) THEN <<"prompt">>
    ELSE IF ~print_mode THEN <<"prompt", "print_mode">>
    ELSE <<"prompt", "print_mode", "credential">>

\* a caller calls cursor_agent(prompt, print_mode, force, output_format,
\* api_key=api_key); the call sleeps in _simulate_delay only when it passes
\* the precondition checks
CallCursorAgent(p, print_mode, force, output_format, api_key) ==
    /\ ncalls < MaxCalls
    /\ ncalls' = ncalls + 1
    /\ call' = [prompt |-> p, print_mode |-> print_mode, force |-> force,
                output_format |-> output_format, api_key |-> api_key,
                env |-> env, checks |-> ChecksRun(p, print_mode)]
    /\ ret' = cursor_agent(p, print_mode, force, output_format, api_key, env)
    /\ clock' = IF ReachesBackend(p, print_mode, api_key, env)
                THEN clock + SimulateDelayUs
                ELSE clock
    /\ UNCHANGED <<objVars, mainVars, pid, env, streamVars, batchVars>>

\* the process environment is changed: os.environ['CURSOR_API_KEY'] = v, or
\* the variable is deleted
SetEnv(v) ==
    /\ env # v
    /\ env' = v
    /\ UNCHANGED <<objVars, mainVars, clock, pid, streamVars, agentVars, batchVars>>

\* no CursorAgent object / no CursorAgent(...) call yet
NoObject == [exists |-> FALSE, api_key |-> None]

NoCtor == [called |-> FALSE, api_key |-> None, env |-> None, raised |-> FALSE]

\* CursorAgent(api_key): self.api_key = api_key or os.getenv(...), and
\* ValueError when that is empty (no object is made)
NewCursorAgent(api_key) ==
    /\ ~ctor.called
    /\ LET key == EffectiveApiKey(api_key, env)
       IN  /\ ctor' = [called |-> TRUE, api_key |-> api_key, env |-> env,
                       raised |-> Falsy(key)]
           /\ agent' = IF Falsy(key) THEN NoObject
                       ELSE [exists |-> TRUE, api_key |-> key]
    /\ UNCHANGED <<mainVars, clock, pid, env, streamVars, agentVars, batchVars>>

\* CursorAgent.analyze(prompt, force)
Analyze(p, force) ==
    /\ agent.exists
    /\ CallCursorAgent(p, TRUE, force, "text", agent.api_key)

\* f"审查 {target} 并提供反馈：..."
ReviewPrompt(target) ==
    "review " \o target \o " and give feedback: code quality, bugs, security"

\* CursorAgent.review(target)
Review(target) ==
    /\ agent.exists
    /\ CallCursorAgent(ReviewPrompt(target), TRUE, TRUE, "json", agent.api_key)

-----------------------------------------------------------------------------
(* process_files_glob and stream_process_files_glob *)

\* fnmatch of one path against a pattern; with recursive=True a "**"
\* segment matches zero or more directories
Matches(pat, f) ==
    /\ f.ext = pat.ext
    /\ IF pat.recursive
       THEN /\ Len(pat.root) <= Len(f.dir)
            /\ SubSeq(f.dir, 1, Len(pat.root)) = pat.root
       ELSE f.dir = pat.root

\* glob.glob(pattern, recursive=True): the paths of the existing files that
\* match, in the order the directory scan meets them (any order)
Glob(pat, files) ==
    LET hit == {f.path : f \in {g \in files : Matches(pat, g)}}
    IN  {m \in [1..Cardinality(hit) -> hit] :
            \A i, j \in 1..Cardinality(hit) : i # j => m[i] # m[j]}

\* str.format(file=path): [ok, value]; a replacement field other than
\* {file} raises KeyError
RECURSIVE Format(_, _)
Format(tpl, path) ==
    IF tpl = <<>> THEN [ok |-> TRUE, value |-> ""]
    ELSE LET rest == Format(Tail(tpl), path)
             head == Head(tpl)
         IN  IF head.kind = "field" /\ head.name # "file"
             THEN [ok |-> FALSE, value |-> ""]
             ELSE IF ~rest.ok THEN rest
             ELSE [ok |-> TRUE,
                   value |-> (IF head.kind = "lit" THEN head.text ELSE path)
                                \o rest.value]

\* f"未找到匹配 '{pattern}' 的文件"
MsgNoMatch(pat) == "no file matches '" \o pat.text \o "'"

NoPfg == [pc |-> "none", matched_files |-> <<>>, idx |-> 0, results |-> <<>>]

\* process_files_glob returning an empty list when nothing matches
CallProcessFilesGlob_EmptyList ==
    /\ pfg.pc = "none"
    /\ \E m \in Glob(pattern, fs) :
         pfg' = [pc |-> IF Len(m) = 0 THEN "returned" ELSE "loop",
                 matched_files |-> m, idx |-> 0, results |-> <<>>]
    /\ UNCHANGED <<objVars, mainVars, clock, pid, env, streamVars, agentVars,
                   fs, pattern, prompt_template, batch_calls, spg, bout>>

\* process_files_glob(pattern, prompt_template) up to its loop: the
\* expansion, and the single-element error list when nothing matches
CallProcessFilesGlob ==
    /\ pfg.pc = "none"
    /\ \E m \in Glob(pattern, fs) :
         pfg' = IF Len(m) = 0
                THEN [pc |-> "returned", matched_files |-> m, idx |-> 0,
                      results |-> <<Dict([error |-> MsgNoMatch(pattern),
                                          exit_code |-> 1])>>]
                ELSE [pc |-> "loop", matched_files |-> m, idx |-> 0,
                      results |-> <<>>]
    /\ UNCHANGED <<objVars, mainVars, clock, pid, env, streamVars, agentVars,
                   fs, pattern, prompt_template, batch_calls, spg, bout>>

\* one iteration of the loop of process_files_glob: the prompt is formatted
\* (an exception leaves the function), cursor_agent is called, the result is
\* tagged with processed_file and appended
ProcessNextFile ==
    /\ pfg.pc = "loop"
    /\ pfg.idx < Len(pfg.matched_files)
    /\ LET file_path == pfg.matched_files[pfg.idx + 1]
           p == Format(prompt_template, file_path)
           result == cursor_agent(p.value, TRUE, TRUE, "json", None, env)
           tagged == Dict(("processed_file" :> file_path) @@ result.value)
       IN  IF ~p.ok
           THEN /\ pfg' = [pfg EXCEPT !.pc = "raised"]
                /\ UNCHANGED <<objVars, mainVars, clock, batch_calls>>
           ELSE /\ pfg' = [pfg EXCEPT !.idx = @ + 1,
                                      !.results = Append(@, tagged)]
                /\ batch_calls' = Append(batch_calls,
                                         [prompt |-> p.value, print_mode |-> TRUE,
                                          force |-> TRUE, output_format |-> "json",
                                          api_key |-> None])
                /\ clock' = IF ReachesBackend(p.value, TRUE, None, env)
                            THEN clock + SimulateDelayUs
                            ELSE clock
    /\ UNCHANGED <<objVars, mainVars, pid, env, streamVars, agentVars,
                   fs, pattern, prompt_template, spg, bout>>

\* the loop is over: return results
ReturnProcessFilesGlob ==
    /\ pfg.pc = "loop"
    /\ pfg.idx = Len(pfg.matched_files)
    /\ pfg' = [pfg EXCEPT !.pc = "returned"]
    /\ UNCHANGED <<objVars, mainVars, clock, pid, env, streamVars, agentVars,
                   fs, pattern, prompt_template, batch_calls, spg, bout>>

ErrorEvent(msg, eid, ts) ==
    [type |-> "error", message |-> msg, event_id |-> eid, timestamp |-> ts]

\* f"{current}/{total}" with the index counted from 0
ProgressString_ZeroBased(current, total) ==
    ToString(current - 1) \o "/" \o ToString(total)

\* f"{current}/{total}"
ProgressString(current, total) ==
    ToString(current) \o "/" \o ToString(total)

FileProcessingEvent(file, progress, eid, ts) ==
    [type |-> "file_processing", status |-> "started", file |-> file,
     progress |-> progress, event_id |-> eid, timestamp |-> ts]

FileProcessedEvent(file, eid, ts) ==
    [type |-> "file_processed", status |-> "completed", file |-> file,
     result |-> [recommendations |-> <<"add JSDoc comments",
                                       "improve function structure">>,
                 lines_added |-> 8],
     event_id |-> eid, timestamp |-> ts]

NoSpg ==
    [pc |-> "none", matched_files |-> <<>>, total |-> 0, current |-> 0,
     event_id |-> None]

\* stream_process_files_glob(pattern, prompt_template): creates the
\* generator object; the expansion runs at the first next()
CallStreamProcessFilesGlob ==
    /\ spg.pc = "none"
    /\ spg' = [NoSpg EXCEPT !.pc = "created"]
    /\ UNCHANGED <<objVars, mainVars, clock, pid, env, streamVars, agentVars,
                   fs, pattern, prompt_template, pfg, batch_calls, bout>>

\* CursorAgent.stream_batch_process(pattern, instruction): the template
\* f"{{file}}: {instruction}" is built and handed to
\* stream_process_files_glob (the wrapper is a generator as well, so both
\* happen at its first next(), before any event)
CallStreamBatchProcess(instruction) ==
    /\ agent.exists
    /\ spg.pc = "none"
    /\ prompt_template' = <<Field("file"), Lit(": " \o instruction)>>
    /\ spg' = [NoSpg EXCEPT !.pc = "created"]
    /\ UNCHANGED <<objVars, mainVars, clock, pid, env, streamVars, agentVars,
                   fs, pattern, pfg, batch_calls, bout>>

\* the head of one loop iteration: current += 1, a new event_id, the
\* file_processing event of the file
YieldStarted(m, cur) ==
    \E addr \in ObjAddrs :
        LET eid == generate_event_id(clock, pid, addr)
        IN  /\ spg' = [pc |-> "started", matched_files |-> m, total |-> Len(m),
                       current |-> cur, event_id |-> eid]
            /\ bout' = Append(bout,
                              FileProcessingEvent(m[cur], ProgressString(cur, Len(m)),
                                                  eid, get_current_timestamp(clock)))

\* first next() that finds nothing and ends without an event
FirstNextNoMatch_Silent ==
    /\ spg.pc = "created"
    /\ \E m \in Glob(pattern, fs) :
         /\ Len(m) = 0
         /\ spg' = [spg EXCEPT !.pc = "done"]
    /\ UNCHANGED <<objVars, mainVars, clock, pid, env, streamVars, agentVars,
                   fs, pattern, prompt_template, pfg, batch_calls, bout>>

\* first next(), nothing matches: the error event
FirstNextNoMatch ==
    /\ spg.pc = "created"
    /\ \E m \in Glob(pattern, fs) :
         /\ Len(m) = 0
         /\ \E addr \in ObjAddrs :
              /\ spg' = [spg EXCEPT !.pc = "error"]
              /\ bout' = Append(bout,
                                ErrorEvent(MsgNoMatch(pattern),
                                           generate_event_id(clock, pid, addr),
                                           get_current_timestamp(clock)))
    /\ UNCHANGED <<objVars, mainVars, clock, pid, env, streamVars, agentVars,
                   fs, pattern, prompt_template, pfg, batch_calls>>

\* first next(), N > 0 files match: the expansion, total, and the first
\* file's file_processing event
FirstNextStarted ==
    /\ spg.pc = "created"
    /\ \E m \in Glob(pattern, fs) :
         /\ Len(m) > 0
         /\ YieldStarted(m, 1)
    /\ UNCHANGED <<objVars, mainVars, clock, pid, env, streamVars, agentVars,
                   fs, pattern, prompt_template, pfg, batch_calls>>

\* stream_process_files_glob handing each file to cursor_agent with the
\* formatted prompt, and reporting the file only when that call succeeds
YieldFileProcessed_CallsAgent ==
    /\ spg.pc = "started"
    /\ LET now == clock + SimulateDelayUs
           file_path == spg.matched_files[spg.current]
           p == Format(prompt_template, file_path)
           result == cursor_agent(p.value, TRUE, TRUE, "json", None, env)
       IN  /\ clock' = now
           /\ spg' = [spg EXCEPT !.pc = "processed"]
           /\ batch_calls' = Append(batch_calls,
                                    [prompt |-> p.value, print_mode |-> TRUE,
                                     force |-> TRUE, output_format |-> "json",
                                     api_key |-> None])
           /\ bout' = Append(bout,
                             IF p.ok /\ result.value.exit_code = 0
                             THEN FileProcessedEvent(file_path, spg.event_id,
                                                     get_current_timestamp(now))
                             ELSE ErrorEvent(MsgNoKey, spg.event_id,
                                             get_current_timestamp(now)))
    /\ UNCHANGED <<objVars, mainVars, pid, env, streamVars, agentVars,
                   fs, pattern, prompt_template, pfg>>

\* _simulate_delay(), then the file_processed event of the current file
YieldFileProcessed ==
    /\ spg.pc = "started"
    /\ LET now == clock + SimulateDelayUs
       IN  /\ clock' = now
           /\ spg' = [spg EXCEPT !.pc = "processed"]
           /\ bout' = Append(bout,
                             FileProcessedEvent(spg.matched_files[spg.current],
                                                spg.event_id,
                                                get_current_timestamp(now)))
    /\ UNCHANGED <<objVars, mainVars, pid, env, streamVars, agentVars,
                   fs, pattern, prompt_template, pfg, batch_calls>>

\* the next iteration expanding the pattern again instead of walking the
\* list expanded at the start
NextFileStarted_Reglob ==
    /\ spg.pc = "processed"
    /\ \E m \in Glob(pattern, fs) :
         /\ spg.current < Len(m)
         /\ YieldStarted(m, spg.current + 1)
    /\ UNCHANGED <<objVars, mainVars, clock, pid, env, streamVars, agentVars,
                   fs, pattern, prompt_template, pfg, batch_calls>>

\* the next iteration of the loop
NextFileStarted ==
    /\ spg.pc = "processed"
    /\ spg.current < Len(spg.matched_files)
    /\ YieldStarted(spg.matched_files, spg.current + 1)
    /\ UNCHANGED <<objVars, mainVars, clock, pid, env, streamVars, agentVars,
                   fs, pattern, prompt_template, pfg, batch_calls>>

\* next() after the error event or after the last file: StopIteration
ReturnStreamProcessFilesGlob ==
    /\ \/ spg.pc = "error"
       \/ spg.pc = "processed" /\ spg.current = Len(spg.matched_files)
    /\ spg' = [spg EXCEPT !.pc = "done"]
    /\ UNCHANGED <<objVars, mainVars, clock, pid, env, streamVars, agentVars,
                   fs, pattern, prompt_template, pfg, batch_calls, bout>>

\* no batch call is made
InitNoBatch ==
    /\ fs = {}
    /\ pattern = None
    /\ prompt_template = None
    /\ pfg = NoPfg
    /\ batch_calls = <<>>
    /\ spg = NoSpg
    /\ bout = <<>>

-----------------------------------------------------------------------------
(* stream_analysis *)

\* "正在分析项目结构...生成报告摘要...完成文件扫描...": 29 characters; each CJK
\* character is written as one ASCII letter, the dots are kept
partial_text == "ZZFXXMJG...SCBGZY...WCWJSM..."

SystemInitEvent(eid, ts) ==
    [type |-> "system", subtype |-> "init", model |-> "cursor-large-v1",
     event_id |-> eid, timestamp |-> ts]

AssistantEvent(text, eid, ts) ==
    [type |-> "assistant",
     message |-> [content |-> <<[text |-> text]>>],
     event_id |-> eid, timestamp |-> ts]

ReadStartedEvent(tid, eid, ts) ==
    [type |-> "tool_call", subtype |-> "started",
     tool_call |-> [readToolCall |-> [args |-> [path |-> "src/"], id |-> tid]],
     event_id |-> eid, timestamp |-> ts]

ReadCompletedEvent(tid, eid, ts) ==
    [type |-> "tool_call", subtype |-> "completed",
     tool_call |-> [readToolCall |->
                       [result |-> [success |-> [totalLines |-> 450]]]],
     event_id |-> eid, timestamp |-> ts]

WriteStartedEvent(path, tid, eid, ts) ==
    [type |-> "tool_call", subtype |-> "started",
     tool_call |-> [writeToolCall |-> [args |-> [path |-> path], id |-> tid]],
     event_id |-> eid, timestamp |-> ts]

WriteCompletedEvent(tid, eid, ts) ==
    [type |-> "tool_call", subtype |-> "completed",
     tool_call |-> [writeToolCall |->
                       [result |-> [success |->
                                       [linesCreated |-> 23, fileSize |-> 1024]]]],
     event_id |-> eid, timestamp |-> ts]

ResultEvent(eid, ts) ==
    [type |-> "result", duration_ms |-> 1250,
     event_id |-> eid, timestamp |-> ts]

\* the frame of a generator object that has not been created yet
NoFrame ==
    [pc |-> "none", event_id |-> None, accumulated |-> "", i |-> 0,
     tool_call_id |-> None, write_tool_id |-> None,
     prompt |-> None, output_file |-> None]

\* stream_analysis(prompt, output_file): creates the generator object; no
\* line of the body runs before the first next()
CallStreamAnalysis(s) ==
    /\ s \in consumer
    /\ gen[s].pc = "none"
    /\ gen' = [gen EXCEPT ![s] = [NoFrame EXCEPT !.pc = "created",
                                                !.prompt = prompt,
                                                !.output_file = output_file]]
    /\ UNCHANGED <<objVars, mainVars, clock, pid, env, ticks, prompt, output_file, consumer, out, agentVars, batchVars>>

\* first next(): event_id is generated, system/init is yielded
YieldInit(s) ==
    /\ gen[s].pc = "created"
    /\ \E addr \in ObjAddrs :
         LET eid == generate_event_id(clock, pid, addr)
         IN  /\ gen' = [gen EXCEPT ![s].pc = "init", ![s].event_id = eid]
             /\ out' = [out EXCEPT ![s] =
                          Append(@, SystemInitEvent(eid, get_current_timestamp(clock)))]
    /\ UNCHANGED <<objVars, mainVars, clock, pid, env, ticks, prompt, output_file, consumer, agentVars, batchVars>>

\* YieldAssistant yielding the new character alone (a delta)
YieldAssistant_Delta(s) ==
    /\ gen[s].pc \in {"init", "assistant"}
    /\ gen[s].i < Len(partial_text)
    /\ LET now  == IF gen[s].pc = "assistant" THEN clock + CharSleepUs ELSE clock
           k    == gen[s].i + 1
           acc  == gen[s].accumulated \o SubSeq(partial_text, k, k)
       IN  /\ clock' = now
           /\ gen' = [gen EXCEPT ![s].pc = "assistant", ![s].i = k,
                                 ![s].accumulated = acc]
           /\ out' = [out EXCEPT ![s] =
                        Append(@, AssistantEvent(SubSeq(partial_text, k, k),
                                                 gen[s].event_id,
                                                 get_current_timestamp(now)))]
    /\ UNCHANGED <<objVars, mainVars, pid, env, ticks, prompt, output_file, consumer, agentVars, batchVars>>

\* one iteration of the for loop: after the previous assistant event the
\* generator sleeps 0.01 s, then appends the next character and yields
YieldAssistant(s) ==
    /\ gen[s].pc \in {"init", "assistant"}
    /\ gen[s].i < Len(partial_text)
    /\ LET now  == IF gen[s].pc = "assistant" THEN clock + CharSleepUs ELSE clock
           k    == gen[s].i + 1
           acc  == gen[s].accumulated \o SubSeq(partial_text, k, k)
       IN  /\ clock' = now
           /\ gen' = [gen EXCEPT ![s].pc = "assistant", ![s].i = k,
                                 ![s].accumulated = acc]
           /\ out' = [out EXCEPT ![s] =
                        Append(@, AssistantEvent(acc, gen[s].event_id,
                                                 get_current_timestamp(now)))]
    /\ UNCHANGED <<objVars, mainVars, pid, env, ticks, prompt, output_file, consumer, agentVars, batchVars>>

\* the loop is exhausted: tool_call_id is generated, readToolCall/started
YieldReadStarted(s) ==
    /\ gen[s].pc \in {"init", "assistant"}
    /\ gen[s].i = Len(partial_text)
    /\ LET now == IF gen[s].pc = "assistant" THEN clock + CharSleepUs ELSE clock
           tid == generate_tool_call_id(now)
       IN  /\ clock' = now
           /\ gen' = [gen EXCEPT ![s].pc = "read_started", ![s].tool_call_id = tid]
           /\ out' = [out EXCEPT ![s] =
                        Append(@, ReadStartedEvent(tid, gen[s].event_id,
                                                   get_current_timestamp(now)))]
    /\ UNCHANGED <<objVars, mainVars, pid, env, ticks, prompt, output_file, consumer, agentVars, batchVars>>

\* YieldReadCompleted stamping the event with a newly generated event id
YieldReadCompleted_FreshEventId(s) ==
    /\ gen[s].pc = "read_started"
    /\ LET now == clock + ToolSleepUs
       IN  /\ clock' = now
           /\ gen' = [gen EXCEPT ![s].pc = "read_completed"]
           /\ \E addr \in ObjAddrs :
                out' = [out EXCEPT ![s] =
                          Append(@, ReadCompletedEvent(gen[s].tool_call_id,
                                                       generate_event_id(now, pid, addr),
                                                       get_current_timestamp(now)))]
    /\ UNCHANGED <<objVars, mainVars, pid, env, ticks, prompt, output_file, consumer, agentVars, batchVars>>

\* YieldReadCompleted announcing the write call before the read call is
\* reported complete
YieldReadCompleted_WriteStartsEarly(s) ==
    /\ gen[s].pc = "read_started"
    /\ LET now == clock + ToolSleepUs
       IN  /\ clock' = now
           /\ gen' = [gen EXCEPT ![s].pc = "read_completed"]
           /\ out' = [out EXCEPT ![s] =
                        Append(@, WriteStartedEvent(gen[s].output_file,
                                                    generate_tool_call_id(now),
                                                    gen[s].event_id,
                                                    get_current_timestamp(now)))]
    /\ UNCHANGED <<objVars, mainVars, pid, env, ticks, prompt, output_file, consumer, agentVars, batchVars>>

\* sleep 0.2 s, readToolCall/completed
YieldReadCompleted(s) ==
    /\ gen[s].pc = "read_started"
    /\ LET now == clock + ToolSleepUs
       IN  /\ clock' = now
           /\ gen' = [gen EXCEPT ![s].pc = "read_completed"]
           /\ out' = [out EXCEPT ![s] =
                        Append(@, ReadCompletedEvent(gen[s].tool_call_id,
                                                     gen[s].event_id,
                                                     get_current_timestamp(now)))]
    /\ UNCHANGED <<objVars, mainVars, pid, env, ticks, prompt, output_file, consumer, agentVars, batchVars>>

\* write_tool_id is generated, writeToolCall/started
YieldWriteStarted(s) ==
    /\ gen[s].pc = "read_completed"
    /\ LET tid == generate_tool_call_id(clock)
       IN  /\ gen' = [gen EXCEPT ![s].pc = "write_started", ![s].write_tool_id = tid]
           /\ out' = [out EXCEPT ![s] =
                        Append(@, WriteStartedEvent(gen[s].output_file, tid,
                                                    gen[s].event_id,
                                                    get_current_timestamp(clock)))]
    /\ UNCHANGED <<objVars, mainVars, clock, pid, env, ticks, prompt, output_file, consumer, agentVars, batchVars>>

\* sleep 0.2 s, writeToolCall/completed
YieldWriteCompleted(s) ==
    /\ gen[s].pc = "write_started"
    /\ LET now == clock + ToolSleepUs
       IN  /\ clock' = now
           /\ gen' = [gen EXCEPT ![s].pc = "write_completed"]
           /\ out' = [out EXCEPT ![s] =
                        Append(@, WriteCompletedEvent(gen[s].write_tool_id,
                                                      gen[s].event_id,
                                                      get_current_timestamp(now)))]
    /\ UNCHANGED <<objVars, mainVars, pid, env, ticks, prompt, output_file, consumer, agentVars, batchVars>>

\* YieldResult without its yield: the body ends after writeToolCall/completed
YieldResult_NoYield(s) ==
    /\ gen[s].pc = "write_completed"
    /\ gen' = [gen EXCEPT ![s].pc = "result"]
    /\ UNCHANGED <<objVars, mainVars, clock, pid, env, ticks, prompt, output_file, consumer, out, agentVars, batchVars>>

\* the terminal result event
YieldResult(s) ==
    /\ gen[s].pc = "write_completed"
    /\ gen' = [gen EXCEPT ![s].pc = "result"]
    /\ out' = [out EXCEPT ![s] =
                 Append(@, ResultEvent(gen[s].event_id, get_current_timestamp(clock)))]
    /\ UNCHANGED <<objVars, mainVars, clock, pid, env, ticks, prompt, output_file, consumer, agentVars, batchVars>>

\* next() after the result event: the body ends, StopIteration
ReturnStreamAnalysis(s) ==
    /\ gen[s].pc = "result"
    /\ gen' = [gen EXCEPT ![s].pc = "done"]
    /\ UNCHANGED <<objVars, mainVars, clock, pid, env, ticks, prompt, output_file, consumer, out, agentVars, batchVars>>

\* the consumer (or the scheduler) lets d microseconds pass between two
\* resumptions
Tick(d) ==
    /\ ticks < MaxTicks
    /\ clock' = clock + d
    /\ ticks' = ticks + 1
    /\ UNCHANGED <<objVars, mainVars, pid, env, prompt, output_file, consumer, gen, out, agentVars, batchVars>>

\* a session that is between its first event and its end
Draining(s) == gen[s].pc \notin {"none", "created", "init", "done"}

\* the consumer drains one generator at a time: it creates, primes (pulls
\* the first event of) and resumes a generator only while no other generator
\* is part-way through
MayResume(s) == \A o \in Sessions \ {s} : ~Draining(o)

-----------------------------------------------------------------------------
(* main: the command-line entry point *)

Whitespace == {" ", "\n", "\t"}

RECURSIVE LStrip(_)
LStrip(str) ==
    IF Len(str) > 0 /\ SubSeq(str, 1, 1) \in Whitespace
    THEN LStrip(SubSeq(str, 2, Len(str)))
    ELSE str

RECURSIVE RStrip(_)
RStrip(str) ==
    IF Len(str) > 0 /\ SubSeq(str, Len(str), Len(str)) \in Whitespace
    THEN RStrip(SubSeq(str, 1, Len(str) - 1))
    ELSE str

\* str.strip()
Strip(str) == RStrip(LStrip(str))

\* sub in str
Contains(str, sub) ==
    \E i \in 1..(Len(str) - Len(sub) + 1) :
        SubSeq(str, i, i + Len(sub) - 1) = sub

\* "错误：必须提供提示语作为参数或标准输入"
MsgMainNoPrompt == ErrPrefix \o "a prompt must be given as argument or on standard input"

\* str(e) of the OSError a print to a failing stdout raises
MsgStdoutFailed == "[Errno 32] Broken pipe"

\* args.prompt after lines 420-427: the argument, else the stripped
\* standard input; "" when neither gives a prompt (read error included)
ResolvedPrompt(a, input) ==
    IF ~Falsy(a.prompt) THEN a.prompt
    ELSE IF input = None THEN ""
    ELSE Strip(input)

\* the exit status of the process after sys.exit(code): the interpreter
\* flushes sys.stdout on its way out, and a flush that fails there turns
\* the status into 120
ExitStatus(code, unflushed, ok) == IF unflushed /\ ~ok THEN 120 ELSE code

\* print(line) to stdout followed by sys.exit(code): the line sits in the
\* buffer of sys.stdout until the interpreter flushes it at exit
PrintAndExit(line, code) ==
    /\ stdout' = IF stdout_ok THEN Append(stdout, line) ELSE stdout
    /\ exit_status' = ExitStatus(code, TRUE, stdout_ok)
    /\ mainpc' = "exited"
    /\ UNCHANGED <<stderr, stdout_ok>>

\* print(line, file=sys.stderr) followed by sys.exit(code)
ComplainAndExit(line, code) ==
    /\ stderr' = Append(stderr, line)
    /\ exit_status' = ExitStatus(code, FALSE, stdout_ok)
    /\ mainpc' = "exited"
    /\ UNCHANGED <<stdout, stdout_ok>>

\* no prompt argument and nothing usable on standard input: message, exit 1
MainRejectNoPrompt(a, input) ==
    /\ mainpc = "none"
    /\ ResolvedPrompt(a, input) = ""
    /\ args' = [a EXCEPT !.prompt = ""]
    /\ stdin' = input
    /\ ComplainAndExit(MsgMainNoPrompt, 1)
    /\ UNCHANGED <<objVars, clock, pid, env, streamVars, agentVars, batchVars>>

\* api_key = args.api_key or os.getenv('CURSOR_API_KEY') is empty:
\* message, exit 1
MainRejectNoKey(a, input) ==
    /\ mainpc = "none"
    /\ ResolvedPrompt(a, input) # ""
    /\ Falsy(EffectiveApiKey(a.api_key, env))
    /\ args' = [a EXCEPT !.prompt = ResolvedPrompt(a, input)]
    /\ stdin' = input
    /\ ComplainAndExit(ErrPrefix \o MsgNoKey, 1)
    /\ UNCHANGED <<objVars, clock, pid, env, streamVars, agentVars, batchVars>>

\* --output-format stream-json with --stream-partial-output: the for
\* statement creates the stream_analysis(args.prompt) generator
MainStartStream(a, input) ==
    /\ mainpc = "none"
    /\ ResolvedPrompt(a, input) # ""
    /\ ~Falsy(EffectiveApiKey(a.api_key, env))
    /\ a.output_format = "stream-json" /\ a.stream_partial_output
    /\ args' = [a EXCEPT !.prompt = ResolvedPrompt(a, input)]
    /\ stdin' = input
    /\ mainpc' = "stream"
    /\ prompt' = ResolvedPrompt(a, input)
    /\ output_file' = "analysis.txt"
    /\ gen' = [gen EXCEPT !["first"] =
                   [NoFrame EXCEPT !.pc = "created",
                                   !.prompt = ResolvedPrompt(a, input),
                                   !.output_file = "analysis.txt"]]
    /\ UNCHANGED <<objVars, clock, pid, env, ticks, consumer, out, agentVars,
                   batchVars, stdout, stderr, stdout_ok, exit_status>>

\* print(json.dumps(event), flush=True) of the event just pulled from the
\* generator
MainPrintEvent ==
    /\ mainpc = "stream"
    /\ Len(out["first"]) = Len(stdout) + 1
    /\ stdout_ok
    /\ stdout' = Append(stdout, out["first"][Len(out["first"])])
    /\ UNCHANGED <<objVars, clock, pid, env, streamVars, agentVars, batchVars,
                   args, stdin, mainpc, stderr, stdout_ok, exit_status>>

\* the print raises (stdout cannot be written): the except branch prints
\* one error event with a new event id to stderr and calls sys.exit(1);
\* the event that could not be written is still in the buffer of stdout
\* when the interpreter exits, and stdout may or may not work again then
MainPrintFails ==
    /\ mainpc = "stream"
    /\ Len(out["first"]) = Len(stdout) + 1
    /\ ~stdout_ok
    /\ \E addr \in ObjAddrs, ok \in BOOLEAN :
          /\ stderr' = Append(stderr,
                              ErrorEvent(MsgStdoutFailed,
                                         generate_event_id(clock, pid, addr),
                                         get_current_timestamp(clock)))
          /\ stdout_ok' = ok
          /\ stdout' = IF ok THEN Append(stdout, out["first"][Len(out["first"])])
                       ELSE stdout
          /\ exit_status' = ExitStatus(1, TRUE, ok)
    /\ mainpc' = "exited"
    /\ UNCHANGED <<objVars, clock, pid, env, streamVars, agentVars, batchVars,
                   args, stdin>>

\* the generator is exhausted: sys.exit(0)
MainExitStream ==
    /\ mainpc = "stream"
    /\ gen["first"].pc = "done"
    /\ mainpc' = "exited"
    /\ exit_status' = ExitStatus(0, FALSE, stdout_ok)
    /\ UNCHANGED <<objVars, clock, pid, env, streamVars, agentVars, batchVars,
                   args, stdin, stdout, stderr, stdout_ok>>

\* every other mode: one cursor_agent call with the resolved key; an error
\* dict or an error text goes to stderr with a non-zero exit, anything
\* else to stdout with exit 0
MainCallCursorAgent(a, input) ==
    /\ mainpc = "none"
    /\ ResolvedPrompt(a, input) # ""
    /\ ~Falsy(EffectiveApiKey(a.api_key, env))
    /\ ~(a.output_format = "stream-json" /\ a.stream_partial_output)
    /\ args' = [a EXCEPT !.prompt = ResolvedPrompt(a, input)]
    /\ stdin' = input
    /\ LET p == ResolvedPrompt(a, input)
           api_key == EffectiveApiKey(a.api_key, env)
           result == cursor_agent(p, a.print, a.force, a.output_format,
                                  api_key, env)
       IN  /\ ncalls' = ncalls + 1
           /\ call' = [prompt |-> p, print_mode |-> a.print, force |-> a.force,
                       output_format |-> a.output_format, api_key |-> api_key,
                       env |-> env, checks |-> ChecksRun(p, a.print)]
           /\ ret' = result
           /\ clock' = IF ReachesBackend(p, a.print, api_key, env)
                       THEN clock + SimulateDelayUs
                       ELSE clock
           /\ IF result.kind = "dict"
              THEN IF "error" \in DOMAIN result.value /\ result.value.error # ""
                   THEN ComplainAndExit(result, result.value.exit_code)
                   ELSE PrintAndExit(result, 0)
              ELSE IF Contains(result.value, ErrPrefix)
                   THEN ComplainAndExit(result.value, 1)
                   ELSE PrintAndExit(result.value, 0)
    /\ UNCHANGED <<objVars, pid, env, streamVars, batchVars>>

\* the reader of stdout goes away (or the disk fills up): from now on a
\* flush of sys.stdout fails
StdoutBreaks ==
    /\ stdout_ok
    /\ mainpc \in {"none", "stream"}
    /\ stdout_ok' = FALSE
    /\ UNCHANGED <<objVars, clock, pid, env, streamVars, agentVars, batchVars,
                   args, stdin, mainpc, stdout, stderr, exit_status>>

\* no direct cursor_agent call has been made
InitNoCall ==
    /\ ncalls = 0
    /\ call = None
    /\ ret = None

\* no CursorAgent object has been constructed
InitNoObject ==
    /\ agent = NoObject
    /\ ctor = NoCtor

\* the module is imported, not run from the command line
InitNoMain ==
    /\ args = None
    /\ stdin = None
    /\ mainpc = "none"
    /\ stdout = <<>>
    /\ stderr = <<>>
    /\ stdout_ok = TRUE
    /\ exit_status = None

InitSessions ==
    /\ InitNoCall
    /\ InitNoObject
    /\ InitNoMain
    /\ InitNoBatch
    /\ env = None
    /\ clock \in StartClocks
    /\ pid \in Pids
    /\ ticks = 0
    /\ prompt \in Prompts
    /\ output_file \in OutputFiles
    /\ gen = [s \in Sessions |-> NoFrame]
    /\ out = [s \in Sessions |-> <<>>]

NextStream ==
    \/ \E s \in Sessions : MayResume(s) /\ CallStreamAnalysis(s)
    \/ \E s \in Sessions : MayResume(s) /\ YieldInit(s)
    \/ \E s \in Sessions : MayResume(s) /\ YieldAssistant(s)
    \/ \E s \in Sessions : MayResume(s) /\ YieldReadStarted(s)
    \/ \E s \in Sessions : MayResume(s) /\ YieldReadCompleted(s)
    \/ \E s \in Sessions : MayResume(s) /\ YieldWriteStarted(s)
    \/ \E s \in Sessions : MayResume(s) /\ YieldWriteCompleted(s)
    \/ \E s \in Sessions : MayResume(s) /\ YieldResult(s)
    \/ \E s \in Sessions : MayResume(s) /\ ReturnStreamAnalysis(s)
    \/ \E d \in TickAmounts : Tick(d)

\* one session
InitStream == InitSessions /\ consumer = {"first"}

SpecStream == InitStream /\ [][NextStream]_vars

\* no streaming session is run
InitNoSessions ==
    /\ ticks = 0
    /\ prompt = None
    /\ output_file = None
    /\ consumer = {}
    /\ gen = [s \in Sessions |-> NoFrame]
    /\ out = [s \in Sessions |-> <<>>]

InitAgent ==
    /\ InitNoSessions
    /\ InitNoCall
    /\ InitNoObject
    /\ InitNoMain
    /\ InitNoBatch
    /\ clock \in StartClocks
    /\ pid \in Pids
    /\ env \in EnvValues

NextAgent ==
    \/ \E p \in Prompts, print_mode \in BOOLEAN, force \in BOOLEAN,
          output_format \in OutputFormats, api_key \in ApiKeys :
           CallCursorAgent(p, print_mode, force, output_format, api_key)
    \/ \E v \in EnvValues : SetEnv(v)
    \/ \E api_key \in ApiKeys : NewCursorAgent(api_key)
    \/ \E p \in Prompts, force \in BOOLEAN : Analyze(p, force)
    \/ \E target \in Targets : Review(target)

SpecAgent == InitAgent /\ [][NextAgent]_vars

InitBatch ==
    /\ InitNoSessions
    /\ InitNoCall
    /\ InitNoObject
    /\ InitNoMain
    /\ clock \in StartClocks
    /\ pid \in Pids
    /\ env \in EnvValues
    /\ fs \in SUBSET Files
    /\ pattern \in Patterns
    /\ prompt_template \in Templates
    /\ pfg = NoPfg
    /\ batch_calls = <<>>
    /\ spg = NoSpg
    /\ bout = <<>>

\* a behaviour makes one batch call: either entry point, once
NextBatch ==
    \/ spg.pc = "none" /\ CallProcessFilesGlob
    \/ ProcessNextFile
    \/ ReturnProcessFilesGlob
    \/ pfg.pc = "none" /\ CallStreamProcessFilesGlob
    \/ \E api_key \in ApiKeys :
          pfg.pc = "none" /\ spg.pc = "none" /\ NewCursorAgent(api_key)
    \/ \E instruction \in Instructions :
          pfg.pc = "none" /\ CallStreamBatchProcess(instruction)
    \/ FirstNextNoMatch
    \/ FirstNextStarted
    \/ YieldFileProcessed
    \/ NextFileStarted
    \/ ReturnStreamProcessFilesGlob

SpecBatch == InitBatch /\ [][NextBatch]_vars

\* another process creates a file while a batch is running
AddFile(f) ==
    /\ f \notin fs
    /\ fs' = fs \cup {f}
    /\ UNCHANGED <<objVars, mainVars, clock, pid, env, streamVars, agentVars,
                   pattern, prompt_template, pfg, batch_calls, spg, bout>>

\* another process deletes a file while a batch is running
RemoveFile(f) ==
    /\ f \in fs
    /\ fs' = fs \ {f}
    /\ UNCHANGED <<objVars, mainVars, clock, pid, env, streamVars, agentVars,
                   pattern, prompt_template, pfg, batch_calls, spg, bout>>

\* the streaming batch on a file system that changes under it
NextBatchChurn ==
    \/ CallStreamProcessFilesGlob
    \/ FirstNextNoMatch
    \/ FirstNextStarted
    \/ YieldFileProcessed
    \/ NextFileStarted
    \/ ReturnStreamProcessFilesGlob
    \/ \E f \in Files : spg.pc \notin {"none", "done"} /\ AddFile(f)
    \/ \E f \in Files : spg.pc \notin {"none", "done"} /\ RemoveFile(f)

SpecBatchChurn == InitBatch /\ [][NextBatchChurn]_vars

\* a session and its replay
\* a command-line run: main, the generator it drains, and its stdout
InitMain ==
    /\ InitNoCall
    /\ InitNoBatch
    /\ InitNoObject
    /\ InitNoMain
    /\ env \in EnvValues
    /\ clock \in StartClocks
    /\ pid \in Pids
    /\ ticks = 0
    /\ prompt = None
    /\ output_file = None
    /\ consumer = {"first"}
    /\ gen = [s \in Sessions |-> NoFrame]
    /\ out = [s \in Sessions |-> <<>>]

\* main pulls an event only after it has printed the one before
MainPulls == mainpc = "stream" /\ Len(out["first"]) = Len(stdout)

NextMain ==
    \/ \E a \in ArgSets, input \in Stdins : MainRejectNoPrompt(a, input)
    \/ \E a \in ArgSets, input \in Stdins : MainRejectNoKey(a, input)
    \/ \E a \in ArgSets, input \in Stdins : MainStartStream(a, input)
    \/ \E a \in ArgSets, input \in Stdins : MainCallCursorAgent(a, input)
    \/ MainPulls /\ YieldInit("first")
    \/ MainPulls /\ YieldAssistant("first")
    \/ MainPulls /\ YieldReadStarted("first")
    \/ MainPulls /\ YieldReadCompleted("first")
    \/ MainPulls /\ YieldWriteStarted("first")
    \/ MainPulls /\ YieldWriteCompleted("first")
    \/ MainPulls /\ YieldResult("first")
    \/ MainPulls /\ ReturnStreamAnalysis("first")
    \/ MainPrintEvent
    \/ MainPrintFails
    \/ MainExitStream
    \/ StdoutBreaks

SpecMain == InitMain /\ [][NextMain]_vars

\* every entry point of the module, one use of one entry point per
\* behaviour: either the module is imported and one of cursor_agent,
\* CursorAgent, process_files_glob and stream_process_files_glob is used,
\* or it is run from the command line
InitLibrary ==
    /\ InitBatch
    /\ fs \in {{}, {f \in Files : f.ext = "js" /\ f.path # "src/d.js"}}
    /\ pattern.recursive
    /\ \E i \in 1..Len(prompt_template) : prompt_template[i].kind = "field"

InitEntryPoints == InitLibrary \/ InitMain

\* nothing has been called yet
Unused ==
    /\ ncalls = 0
    /\ pfg.pc = "none"
    /\ spg.pc = "none"
    /\ mainpc = "none"

Imported == consumer = {}

NextEntryPoints ==
    \/ \E p \in Prompts, print_mode \in BOOLEAN, force \in BOOLEAN,
          output_format \in OutputFormats, api_key \in ApiKeys :
           /\ Imported /\ Unused /\ ~ctor.called
           /\ CallCursorAgent(p, print_mode, force, output_format, api_key)
    \/ \E api_key \in ApiKeys : Imported /\ Unused /\ NewCursorAgent(api_key)
    \/ \E p \in Prompts, force \in BOOLEAN : Unused /\ Analyze(p, force)
    \/ \E target \in Targets : Unused /\ Review(target)
    \/ Imported /\ Unused /\ ~ctor.called /\ CallProcessFilesGlob
    \/ ProcessNextFile
    \/ ReturnProcessFilesGlob
    \/ Imported /\ Unused /\ ~ctor.called /\ CallStreamProcessFilesGlob
    \/ \E instruction \in Instructions :
          Unused /\ CallStreamBatchProcess(instruction)
    \/ FirstNextNoMatch
    \/ FirstNextStarted
    \/ YieldFileProcessed
    \/ NextFileStarted
    \/ ReturnStreamProcessFilesGlob
    \/ ~Imported /\ NextMain

SpecEntryPoints == InitEntryPoints /\ [][NextEntryPoints]_vars

InitReplay == InitSessions /\ consumer = Sessions

SpecReplay == InitReplay /\ [][NextStream]_vars


-----------------------------------------------------------------------------
(* Vocabulary of the properties of stream_analysis *)

\* the generator of session s has been run to its end
Complete(s) == gen[s].pc = "done"

\* the key of the tool_call dict of a tool_call event
ToolName(e) == CHOOSE n \in DOMAIN e.tool_call : TRUE

\* the tool_call events of evs with the given subtype
ToolEvents(evs, st) ==
    {i \in 1..Len(evs) : evs[i].type = "tool_call" /\ evs[i].subtype = st}

CarriesToolId(e) == "id" \in DOMAIN e.tool_call[ToolName(e)]

\* the tool-call ids carried by the tool_call events of the given subtype
ToolIdsOf(evs, st) ==
    {evs[i].tool_call[ToolName(evs[i])].id :
        i \in {j \in ToolEvents(evs, st) : CarriesToolId(evs[j])}}

IsAssistant(e) == e.type = "assistant"

\* the texts of the assistant events, in emission order
AssistantTexts(evs) ==
    LET as == SelectSeq(evs, IsAssistant)
    IN  [k \in 1..Len(as) |-> as[k].message.content[1].text]

IsPrefix(a, b) == Len(a) <= Len(b) /\ SubSeq(b, 1, Len(a)) = a

-----------------------------------------------------------------------------
(* C1: in every complete output of stream_analysis the set of tool-call   *)
(* ids carried by the tool_call/started events equals the set of ids      *)
(* carried by the tool_call/completed events, and every completed event   *)
(* carries an id.                                                         *)
C1_StartedIdsEqualCompletedIds ==
    \A s \in Sessions :
        Complete(s) =>
            /\ ToolIdsOf(out[s], "started") = ToolIdsOf(out[s], "completed")
            /\ \A i \in ToolEvents(out[s], "completed") : CarriesToolId(out[s][i])

(* C2: the event sequence of stream_analysis starts with a system/init    *)
(* event, contains no other system/init event, a result event is only     *)
(* ever the last event yielded, and the complete sequence ends with       *)
(* exactly one result event.                                              *)
C2_InitFirstResultLast ==
    \A s \in Sessions :
        LET evs == out[s]
        IN  /\ Len(evs) > 0 => evs[1].type = "system" /\ evs[1].subtype = "init"
            /\ \A i \in 2..Len(evs) : evs[i].type # "system"
            /\ \A i \in 1..Len(evs) : evs[i].type = "result" => i = Len(evs)
            /\ gen[s].pc # "none" /\ gen[s].pc # "created" => Len(evs) > 0
            /\ Complete(s) => evs[Len(evs)].type = "result"

C2_Witness ==
    /\ Complete("first")
    /\ prompt = ""
    /\ output_file = "report.md"
    /\ Len(out["first"]) = Len(partial_text) + 6

(* C7: the assistant events are cumulative: each assistant text is the    *)
(* previous one extended at the end by one character, and once the loop   *)
(* is over the last assistant event carries the entire text.              *)
C7_AssistantCumulative ==
    \A s \in Sessions :
        LET t == AssistantTexts(out[s])
        IN  /\ \A k \in 1..(Len(t) - 1) :
                  /\ IsPrefix(t[k], t[k + 1])
                  /\ Len(t[k + 1]) = Len(t[k]) + 1
            /\ \A k \in 1..Len(t) : IsPrefix(t[k], partial_text)
            /\ gen[s].pc \in {"read_started", "read_completed", "write_started",
                              "write_completed", "result", "done"}
                  => Len(t) > 0 /\ t[Len(t)] = partial_text

C7_Witness ==
    /\ Complete("first")
    /\ Len(AssistantTexts(out["first"])) = Len(partial_text)

(* C8: in one session the write pair's tool-call id differs from the read *)
(* pair's tool-call id, whatever the clock values at which the two are    *)
(* generated, and both differ from the session's event_id.                *)
C8_ToolIdsDistinct ==
    \A s \in Sessions :
        gen[s].write_tool_id # None =>
            /\ gen[s].write_tool_id # gen[s].tool_call_id
            /\ gen[s].write_tool_id # gen[s].event_id
            /\ gen[s].tool_call_id # gen[s].event_id

(* C9: a replay of the session produces an event_id different from the    *)
(* first run's and timestamps different from the first run's.             *)
C9_ReplayFresh ==
    (gen["first"].event_id # None /\ gen["replay"].event_id # None) =>
        /\ gen["first"].event_id # gen["replay"].event_id
        /\ \A i \in 1..Len(out["first"]) : \A j \in 1..Len(out["replay"]) :
               out["first"][i].timestamp # out["replay"][j].timestamp

-----------------------------------------------------------------------------
(* Vocabulary of the properties of cursor_agent *)

\* a direct call has been made; call and ret describe it
Called == ncalls > 0

PromptMissing == call.prompt = None \/ call.prompt = ""

PrintModeOff == ~call.print_mode

\* neither the api_key argument nor the environment of the call gives a
\* non-empty key
NoCredential ==
    /\ call.api_key = None \/ call.api_key = ""
    /\ call.env = None \/ call.env = ""

PreconditionFails == PromptMissing \/ PrintModeOff \/ NoCredential

IsErrorDict(r) ==
    /\ r.kind = "dict"
    /\ "error" \in DOMAIN r.value
    /\ r.value.error # ""
    /\ "exit_code" \in DOMAIN r.value
    /\ r.value.exit_code = 1

IsErrorText(r) ==
    /\ r.kind = "str"
    /\ Len(r.value) > Len(ErrPrefix)
    /\ SubSeq(r.value, 1, Len(ErrPrefix)) = ErrPrefix

(* C4 as claimed: whatever the output format, a call with an empty       *)
(* prompt, with print_mode false or with no resolvable credential returns *)
(* an error result that carries exit code 1.                              *)
C4_ErrorCarriesExitCode ==
    Called /\ PreconditionFails => IsErrorDict(ret)

(* C4 as amended: a call with an empty prompt, with print_mode false or   *)
(* with no resolvable credential returns an error result; for json and    *)
(* stream-json it is a dict with error set and exit_code 1, for text it   *)
(* is a plain string with the error prefix and no exit code.              *)
C4_ErrorShapeByFormat ==
    Called /\ PreconditionFails =>
        IF call.output_format = "text"
        THEN IsErrorText(ret)
        ELSE IsErrorDict(ret)

C4_Witness ==
    /\ Called
    /\ ~PromptMissing
    /\ PrintModeOff
    /\ ~NoCredential
    /\ call.output_format = "text"
    /\ IsErrorText(ret)

(* C5 as claimed: every call with output_format = "stream-json" returns   *)
(* the empty string.                                                      *)
C5_StreamJsonAlwaysEmpty ==
    Called /\ call.output_format = "stream-json" => ret = Str("")

(* C5 as amended: a call with output_format = "stream-json" returns the   *)
(* empty string when its prompt is non-empty, print_mode is true and a    *)
(* credential is resolvable, and otherwise a dict with error set and      *)
(* exit_code 1; it returns a value in every case.                         *)
C5_StreamJsonEmptyWhenActionable ==
    Called /\ call.output_format = "stream-json" =>
        IF PreconditionFails
        THEN IsErrorDict(ret)
        ELSE ret = Str("")

C5_Witness ==
    /\ Called
    /\ call.output_format = "stream-json"
    /\ ~PreconditionFails
    /\ call.api_key = None
    /\ call.env = "sk-env"
    /\ ret = Str("")

-----------------------------------------------------------------------------
(* Vocabulary of the properties of the batch entry points *)

\* the stream_process_files_glob generator has been run to its end
StreamBatchComplete == spg.pc = "done"

\* the events of bout that carry the progress string pr
CarryingProgress(pr) ==
    {j \in 1..Len(bout) : "progress" \in DOMAIN bout[j] /\ bout[j].progress = pr}

IsStartedEvent(e) == e.type = "file_processing" /\ e.status = "started"

IsCompletedEvent(e) == e.type = "file_processed" /\ e.status = "completed"

(* C3 as claimed: for N > 0 matched files stream_process_files_glob       *)
(* yields exactly 2N events and each progress string "i/N" appears        *)
(* exactly twice, on the started and on the completed event of file i.    *)
C3_ProgressTwice ==
    StreamBatchComplete /\ spg.total > 0 =>
        /\ Len(bout) = 2 * spg.total
        /\ \A i \in 1..spg.total :
             LET pr == ToString(i) \o "/" \o ToString(spg.total)
             IN  /\ Cardinality(CarryingProgress(pr)) = 2
                 /\ \E j, k \in CarryingProgress(pr) :
                       IsStartedEvent(bout[j]) /\ IsCompletedEvent(bout[k])

(* C3 as amended: for N > 0 matched files stream_process_files_glob       *)
(* yields exactly 2N events, a started and a completed event per file in  *)
(* file order; each progress string "i/N" appears exactly once, on the    *)
(* started event of file i, and the completed event carries no progress.  *)
C3_ProgressOncePerFile ==
    StreamBatchComplete /\ spg.total > 0 =>
        /\ spg.total = Len(spg.matched_files)
        /\ Len(bout) = 2 * spg.total
        /\ \A i \in 1..spg.total :
             LET pr == ToString(i) \o "/" \o ToString(spg.total)
             IN  /\ CarryingProgress(pr) = {2 * i - 1}
                 /\ IsStartedEvent(bout[2 * i - 1])
                 /\ bout[2 * i - 1].file = spg.matched_files[i]
                 /\ IsCompletedEvent(bout[2 * i])
                 /\ bout[2 * i].file = spg.matched_files[i]
                 /\ "progress" \notin DOMAIN bout[2 * i]

C3_Witness ==
    /\ StreamBatchComplete
    /\ spg.total = 3
    /\ Len(bout) = 6
    /\ bout[5].progress = "3/3"

(* C6: when the pattern matches no file, process_files_glob returns a     *)
(* list of exactly one element with error set and exit_code = 1 and calls *)
(* cursor_agent for no file, and stream_process_files_glob yields exactly *)
(* one event, of type "error", and then ends.                             *)
C6_EmptyMatchTerminal ==
    /\ (pfg.pc \in {"loop", "returned", "raised"} /\ pfg.matched_files = <<>>) =>
          /\ pfg.pc = "returned"
          /\ Len(pfg.results) = 1
          /\ IsErrorDict(pfg.results[1])
          /\ batch_calls = <<>>
    /\ (spg.pc \in {"error", "started", "processed", "done"}
          /\ spg.matched_files = <<>>) =>
          /\ spg.pc \in {"error", "done"}
          /\ Len(bout) = 1
          /\ bout[1].type = "error"

C6_Witness ==
    /\ StreamBatchComplete
    /\ fs # {}
    /\ \A f \in fs : ~Matches(pattern, f)
    /\ Len(bout) = 1
    /\ bout[1].type = "error"

-----------------------------------------------------------------------------
(* Order of the tool_call events of stream_analysis *)

\* the tool_call events of evs, in order (the events of other types play
\* no part in what follows)
ToolCalls(evs) == SelectSeq(evs, LAMBDA e : e.type = "tool_call")

\* the positions among the first k tool_call events with subtype st and
\* tool name n
ToolEventsUpTo(tc, st, n, k) ==
    {i \in 1..k : tc[i].subtype = st /\ ToolName(tc[i]) = n}

ToolNames == {"readToolCall", "writeToolCall"}

\* the tool calls started but not completed within the first k tool_call
\* events
OpenCalls(tc, k) ==
    {n \in ToolNames :
        Cardinality(ToolEventsUpTo(tc, "started", n, k))
            > Cardinality(ToolEventsUpTo(tc, "completed", n, k))}

(* C11: every tool_call/completed event is preceded by the started event  *)
(* of the same tool call (the same tool name: completed events carry no   *)
(* id), the read call's started and completed events both come before    *)
(* the write call's started event, and in every prefix of the output at   *)
(* most one tool call is started but not yet completed.                   *)
C11_ToolCallOrder ==
    \A s \in Sessions :
        LET tc == ToolCalls(out[s])
        IN  \A k \in 1..Len(tc) :
               /\ tc[k].subtype = "completed" =>
                     ToolEventsUpTo(tc, "started", ToolName(tc[k]), k - 1) # {}
               /\ tc[k].subtype = "started" /\ ToolName(tc[k]) = "writeToolCall" =>
                     \E a, b \in 1..(k - 1) :
                         /\ a < b
                         /\ a \in ToolEventsUpTo(tc, "started", "readToolCall", k)
                         /\ b \in ToolEventsUpTo(tc, "completed", "readToolCall", k)
               /\ Cardinality(OpenCalls(tc, k)) <= 1
               /\ \A n \in ToolNames :
                     /\ Cardinality(ToolEventsUpTo(tc, "started", n, k)) <= 1
                     /\ Cardinality(ToolEventsUpTo(tc, "completed", n, k))
                           <= Cardinality(ToolEventsUpTo(tc, "started", n, k))

\* a consumer that stopped after writeToolCall/started sees one open call,
\* and saw the read call open two events earlier
C11_Witness ==
    /\ gen["first"].pc = "write_started"
    /\ OpenCalls(ToolCalls(out["first"]), 3) = {"writeToolCall"}
    /\ OpenCalls(ToolCalls(out["first"]), 1) = {"readToolCall"}

-----------------------------------------------------------------------------
(* The expansion of stream_process_files_glob under a changing file set *)

\* the file_processing/started events of bout, in order
StartedEvents == SelectSeq(bout, LAMBDA e : e.type = "file_processing")

\* the generator has expanded the pattern and found files
Expanded == spg.pc \in {"started", "processed", "done"} /\ spg.total > 0

(* C12: the pattern is expanded once, at the start of the batch; from    *)
(* then on the list of files and the total never change, whatever is      *)
(* added to or removed from the file set, and the k-th started event is   *)
(* about the k-th file of that expansion with progress "k/total".         *)
C12_TotalFixedAtExpansion ==
    /\ [](Expanded =>
            /\ spg.total = Len(spg.matched_files)
            /\ Len(StartedEvents) = spg.current
            /\ \A k \in 1..Len(StartedEvents) :
                  /\ StartedEvents[k].file = spg.matched_files[k]
                  /\ StartedEvents[k].progress
                        = ToString(k) \o "/" \o ToString(spg.total))
    /\ [][/\ (spg.pc = "created" /\ spg'.pc = "started" =>
                 /\ spg'.matched_files \in Glob(pattern, fs)
                 /\ spg'.current = 1)
          /\ (Expanded =>
                 /\ spg'.matched_files = spg.matched_files
                 /\ spg'.total = spg.total
                 /\ spg'.current \in {spg.current, spg.current + 1})]_vars

\* a batch of two files finished although one of them was deleted and a
\* third matching file was created while it ran
C12_Witness ==
    /\ spg.pc = "done"
    /\ spg.total = 2
    /\ Len(StartedEvents) = 2
    /\ \E m \in Glob(pattern, fs) :
          /\ Len(m) = 2
          /\ \E k \in 1..2 : \A j \in 1..2 : m[k] # spg.matched_files[j]

-----------------------------------------------------------------------------
(* The results of process_files_glob *)

\* process_files_glob has been left, by return or by an exception
ProcessFilesGlobLeft == pfg.pc \in {"returned", "raised"}

(* C13 as claimed: for a pattern that matches N > 0 files                 *)
(* process_files_glob returns exactly N results in the order of the       *)
(* expansion; the i-th result is that of cursor_agent(print_mode=True,    *)
(* force=True, output_format="json") on the template with {file}          *)
(* replaced by the i-th path, tagged with processed_file = that path.     *)
C13_OneResultPerMatchInOrder ==
    ProcessFilesGlobLeft /\ Len(pfg.matched_files) > 0 =>
        /\ pfg.pc = "returned"
        /\ Len(pfg.results) = Len(pfg.matched_files)
        /\ Len(batch_calls) = Len(pfg.matched_files)
        /\ \A i \in 1..Len(pfg.matched_files) :
              LET path == pfg.matched_files[i]
                  p == Format(prompt_template, path).value
              IN  /\ i <= Len(batch_calls)
                  /\ i <= Len(pfg.results)
                  /\ batch_calls[i].prompt = p
                  /\ batch_calls[i].print_mode
                  /\ batch_calls[i].force
                  /\ batch_calls[i].output_format = "json"
                  /\ pfg.results[i].kind = "dict"
                  /\ pfg.results[i].value.processed_file = path

(* C14 as claimed: a failure while processing one matched file does not   *)
(* abort process_files_glob: no exception leaves the function, and the    *)
(* returned list has one item per matched file, an error-shaped one for   *)
(* each file whose prompt construction or cursor_agent call failed.       *)
C14_FailureIsolatedPerItem ==
    /\ pfg.pc # "raised"
    /\ pfg.pc = "returned" /\ Len(pfg.matched_files) > 0 =>
          /\ Len(pfg.results) = Len(pfg.matched_files)
          /\ \A i \in 1..Len(pfg.results) :
                ~Format(prompt_template, pfg.matched_files[i]).ok
                    => IsErrorDict(pfg.results[i])

-----------------------------------------------------------------------------
(* Credential resolution and the order of the precondition checks *)

\* the latest call returned the error msg, in the shape of its format
ReturnsError(msg) ==
    \/ IsErrorDict(ret) /\ ret.value.error = msg
    \/ IsErrorText(ret) /\ ret.value = ErrPrefix \o msg

NonEmpty(v) == v # None /\ v # ""

(* C16: the credential is the explicit api_key when that is non-empty,    *)
(* else the CURSOR_API_KEY environment value when that is non-empty, else *)
(* absent: CursorAgent(api_key) stores exactly that value and raises      *)
(* when there is none, and a cursor_agent call whose prompt and print     *)
(* mode are fine fails with the credential error exactly when neither     *)
(* source gives a non-empty value (an explicit "" counts as none).        *)
C16_CredentialResolutionOrder ==
    /\ ctor.called =>
          IF NonEmpty(ctor.api_key)
          THEN ~ctor.raised /\ agent.exists /\ agent.api_key = ctor.api_key
          ELSE IF NonEmpty(ctor.env)
          THEN ~ctor.raised /\ agent.exists /\ agent.api_key = ctor.env
          ELSE ctor.raised /\ ~agent.exists
    /\ Called /\ ~PromptMissing /\ ~PrintModeOff =>
          IF NonEmpty(call.api_key) \/ NonEmpty(call.env)
          THEN /\ ~IsErrorDict(ret)
               /\ ~IsErrorText(ret)
               /\ call.output_format = "json" => ret.value.api_key_set
          ELSE ReturnsError(MsgNoKey)

\* both sources give a key and the object holds the explicit one; then a
\* call with an explicit "" and no environment value is refused
C16_Witness ==
    /\ ctor.called
    /\ ctor.api_key = "sk-arg"
    /\ ctor.env = "sk-env"
    /\ agent.exists
    /\ agent.api_key = "sk-arg"
    /\ Called
    /\ call.api_key = ""
    /\ call.env = None
    /\ ReturnsError(MsgNoKey)

(* C18: cursor_agent checks prompt, then print mode, then the credential, *)
(* and returns at the first check that fails: the error reported is that  *)
(* of the earliest failing check, and the credential is not looked at     *)
(* when the prompt or the print-mode check fails.                         *)
C18_FirstFailingCheckReported ==
    Called =>
        /\ IsPrefix(call.checks, <<"prompt", "print_mode", "credential">>)
        /\ IF PromptMissing
           THEN ReturnsError(MsgNoPrompt) /\ call.checks = <<"prompt">>
           ELSE IF PrintModeOff
           THEN ReturnsError(MsgNoPrint) /\ call.checks = <<"prompt", "print_mode">>
           ELSE /\ call.checks[Len(call.checks)] = "credential"
                /\ IF NoCredential
                   THEN ReturnsError(MsgNoKey)
                   ELSE ~IsErrorDict(ret) /\ ~IsErrorText(ret)

\* all three preconditions fail at once and the prompt error is reported
C18_Witness ==
    /\ Called
    /\ PromptMissing /\ PrintModeOff /\ NoCredential
    /\ ReturnsError(MsgNoPrompt)
    /\ call.checks = <<"prompt">>

-----------------------------------------------------------------------------
(* The command line: actionable requests, and failures while streaming *)

\* main has parsed its command line
MainRan == mainpc # "none"

\* the request of the command line has a prompt, print mode on, and a key
Actionable ==
    /\ args.prompt # ""
    /\ args.print
    /\ NonEmpty(args.api_key) \/ NonEmpty(env)

(* C17 as claimed: a command-line request that is not actionable (empty   *)
(* prompt, print mode off, or no credential) is rejected before any       *)
(* backend step, also with --output-format stream-json and                *)
(* --stream-partial-output: no simulated delay passes, the generator      *)
(* yields no lifecycle event, nothing is printed to stdout, and the run   *)
(* does not end with status 0.                                            *)
C17_ActedOnlyWhenActionable ==
    MainRan /\ ~Actionable =>
        /\ clock \in StartClocks
        /\ out["first"] = <<>>
        /\ stdout = <<>>
        /\ mainpc # "stream"
        /\ mainpc = "exited" => exit_status # 0

\* the run took the streaming branch of main
StreamRun ==
    /\ MainRan
    /\ args.output_format = "stream-json"
    /\ args.stream_partial_output
    /\ gen["first"].pc # "none"

(* C19 as claimed: when the streaming run of main ends after a failure,   *)
(* exactly one error event with the failure message and a newly generated *)
(* event id has been emitted, the generator was not resumed after the     *)
(* failure, and the exit status is 1; when it ends without a failure the  *)
(* whole session up to the result event was printed and the exit status   *)
(* is 0.                                                                  *)
C19_StreamFailureErrorEventExit1 ==
    mainpc = "exited" /\ StreamRun =>
        IF stderr # <<>>
        THEN /\ Len(stderr) = 1
             /\ stderr[1].type = "error"
             /\ stderr[1].message = MsgStdoutFailed
             /\ \E addr \in ObjAddrs :
                   stderr[1].event_id = generate_event_id(clock, pid, addr)
             /\ Len(out["first"]) <= Len(stdout) + 1
             /\ gen["first"].pc # "done"
             /\ exit_status = 1
        ELSE /\ Complete("first")
             /\ stdout = out["first"]
             /\ stdout[Len(stdout)].type = "result"
             /\ exit_status = 0

-----------------------------------------------------------------------------
(* What the events of stream_process_files_glob depend on *)

(* C20: stream_process_files_glob never calls cursor_agent and never      *)
(* looks at a credential, and its events are a function of the list of    *)
(* matched files alone (event ids and timestamps aside): the events come  *)
(* in started/completed pairs, the k-th pair is about the k-th matched    *)
(* file and shares one event_id, and no pair starts before the one before *)
(* it is complete, whatever the prompt_template and the API key are.      *)
C20_EventsDependOnMatchedFilesOnly ==
    spg.pc # "none" =>
        /\ batch_calls = <<>>
        /\ ncalls = 0
        /\ Expanded =>
              LET m == spg.matched_files
                  N == Len(m)
              IN  /\ Len(bout) <= 2 * N
                  /\ \A j \in 1..Len(bout) :
                        LET k == (j + 1) \div 2
                        IN  IF j % 2 = 1
                            THEN bout[j] = FileProcessingEvent(
                                               m[k],
                                               ToString(k) \o "/" \o ToString(N),
                                               bout[j].event_id,
                                               bout[j].timestamp)
                            ELSE bout[j] = FileProcessedEvent(
                                               m[k],
                                               bout[j - 1].event_id,
                                               bout[j].timestamp)

\* two files streamed to the end with no API key anywhere and a template
\* that process_files_glob cannot format
C20_Witness ==
    /\ spg.pc = "done"
    /\ Len(bout) = 4
    /\ env = None
    /\ ~agent.exists
    /\ ~Format(prompt_template, spg.matched_files[1]).ok
    /\ bout[1].event_id = bout[2].event_id
    /\ bout[3].file = spg.matched_files[2]

-----------------------------------------------------------------------------
(* Every error is observable, at every entry point *)

\* item i of the list process_files_glob returned is about a file whose
\* cursor_agent call failed its preconditions (only the credential can:
\* the call is made with print_mode=True and no explicit key)
ItemFailed(i) ==
    \/ Format(prompt_template, pfg.matched_files[i]).value = ""
    \/ ~NonEmpty(env)

\* the command-line run ended without reaching the end of its work
MainFailed ==
    \/ args.prompt = ""
    \/ ~(NonEmpty(args.api_key) \/ NonEmpty(env))
    \/ IF StreamRun THEN gen["first"].pc # "done"
       ELSE Called /\ PreconditionFails

\* the errors of the batch entry points and of main, which both readings
\* of C15 agree on
BatchAndMainErrorsObservable ==
    /\ pfg.pc = "returned" =>
          IF pfg.matched_files = <<>>
          THEN Len(pfg.results) = 1 /\ IsErrorDict(pfg.results[1])
          ELSE \A i \in 1..Len(pfg.results) :
                  ItemFailed(i) =>
                      /\ IsErrorDict(pfg.results[i])
                      /\ pfg.results[i].value.exit_code # 0
    /\ spg.pc = "done" /\ spg.matched_files = <<>> =>
          Len(bout) = 1 /\ bout[1].type = "error"
    /\ mainpc = "exited" =>
          /\ MainFailed => exit_status # 0 /\ stderr # <<>>
          /\ exit_status = 0 =>
                /\ stderr = <<>>
                /\ stdout # <<>>
                /\ StreamRun => stdout = out["first"]

=============================================================================
